---- MODULE Spec2Model ----
\* Prime-field arithmetic (FiniteField) and the short Weierstrass group law
\* (EllipticCurve: add, double, scalar_mul, is_on_curve) of the ECC crate,
\* as a state machine of library calls.  Every call is one step except
\* scalar_mul, whose double-and-add loop is taken one iteration at a time.
EXTENDS Integers, Naturals, Sequences, FiniteSets, TLC

\* ---------------------------------------------------------------- bounds
\* largest scalar handed to scalar_mul
MaxK == 21
\* how far above p - 1 an operand (coordinate or field argument) may lie
CoordSlack == 1
\* largest modulus of a stand-alone FiniteField
MaxModulus == 19

\* ---------------------------------------------------------------- values
\* enum Point { Coordinates(BigUint, BigUint), Identity }
Coordinates(x, y) == [tag |-> "Coordinates", x |-> x, y |-> y]
Identity == [tag |-> "Identity", x |-> 0, y |-> 0]

\* struct EllipticCurve { a, b, p }; the curve of the unit tests and two
\* small curves that have points of order 2 (y = 0) and of composite order
ToyCurve == [a |-> 2, b |-> 2, p |-> 17]
Curve5 == [a |-> 3, b |-> 0, p |-> 5]
Curve7 == [a |-> 3, b |-> 1, p |-> 7]
Curves == {ToyCurve, Curve5, Curve7}

\* the outcome of a call: a value, or the panic that ended it
Ok(v) == [err |-> "none", val |-> v]
FPanic(kind) == [err |-> kind, val |-> 0]
PPanic(kind) == [err |-> kind, val |-> Identity]
\* `?`-like sequencing of calls that may panic
Bind(res, F(_)) == IF res.err # "none" THEN FPanic(res.err) ELSE F(res.val)
PBind(res, F(_)) == IF res.err # "none" THEN PPanic(res.err) ELSE F(res.val)

\* ---------------------------------------------------------------- BigUint
\* BigUint::modpow(base, exp, m), m > 0
RECURSIVE modpow(_, _, _)
modpow(base, exp, m) ==
  IF exp = 0 THEN 1 % m ELSE (base * modpow(base, exp - 1, m)) % m

\* a bit length that is the index of the top bit (one too small)
RECURSIVE bits_top_index(_)
bits_top_index(d) == IF d <= 1 THEN 0 ELSE 1 + bits_top_index(d \div 2)

\* BigUint::bits(): the bit length, 0 for 0
RECURSIVE bits(_)
bits(d) == IF d = 0 THEN 0 ELSE 1 + bits(d \div 2)

\* BigUint::bit(i)
bit(d, i) == (d \div (2 ^ i)) % 2 = 1

\* ---------------------------------------------------------------- FiniteField
ff_add(p, a, b) == Ok(modpow(a + b, 1, p))

ff_mul(p, a, b) == Ok(modpow(a * b, 1, p))

inv_add(p, n) == IF n < p THEN Ok(p - n) ELSE FPanic("RangeViolation")

\* inv_mul raising to p - 1 instead of p - 2
inv_mul_exponent_off_by_one(p, n) ==
  IF p < 2 THEN FPanic("Underflow") ELSE Ok(modpow(n, p - 1, p))

\* &self.p - 2 panics when p < 2 (BigUint subtraction underflow)
inv_mul(p, n) == IF p < 2 THEN FPanic("Underflow") ELSE Ok(modpow(n, p - 2, p))

ff_sub(p, a, b) == Bind(inv_add(p, b), LAMBDA nb : ff_add(p, a, nb))

ff_div(p, a, b) == Bind(inv_mul(p, b), LAMBDA ib : ff_mul(p, a, ib))

\* ---------------------------------------------------------------- EllipticCurve
\* impl PartialEq for Point
PointEq(p1, p2) ==
  CASE p1.tag = "Identity" /\ p2.tag = "Identity" -> TRUE
    [] p1.tag = "Coordinates" /\ p2.tag = "Coordinates" -> p1.x = p2.x /\ p1.y = p2.y
    [] OTHER -> FALSE

is_on_curve(ec, c) ==
  IF c.tag = "Coordinates"
  THEN LET y_sq == modpow(c.y, 2, ec.p)
           x_cb == modpow(c.x, 3, ec.p)
       IN  y_sq = modpow(x_cb + ec.a * c.x + ec.b, 1, ec.p)
  ELSE TRUE

\* the chord-tangent formula with x2 left out of x3
calculate_x3_y3_without_x2(ec, lambda, x1, x2, y1) ==
  Bind(ff_mul(ec.p, lambda, lambda), LAMBDA lambda_sq :
  Bind(ff_sub(ec.p, lambda_sq, x1), LAMBDA x3 :
  Bind(ff_sub(ec.p, x1, x3), LAMBDA dx3 :
  Bind(ff_mul(ec.p, lambda, dx3), LAMBDA l_dx3 :
  Bind(ff_sub(ec.p, l_dx3, y1), LAMBDA y3 :
  Ok(<<x3, y3>>))))))

calculate_x3_y3(ec, lambda, x1, x2, y1) ==
  Bind(ff_mul(ec.p, lambda, lambda), LAMBDA lambda_sq :
  Bind(ff_sub(ec.p, lambda_sq, x1), LAMBDA s1 :
  Bind(ff_sub(ec.p, s1, x2), LAMBDA x3 :
  Bind(ff_sub(ec.p, x1, x3), LAMBDA dx3 :
  Bind(ff_mul(ec.p, lambda, dx3), LAMBDA l_dx3 :
  Bind(ff_sub(ec.p, l_dx3, y1), LAMBDA y3 :
  Ok(<<x3, y3>>)))))))

\* the (Coordinates, Coordinates) arm without the reflected-points test
add_chord_without_reflection(ec, x1, y1, x2, y2) ==
  PBind(ff_sub(ec.p, y2, y1), LAMBDA d_y :
  PBind(ff_sub(ec.p, x2, x1), LAMBDA d_x :
  PBind(ff_div(ec.p, d_y, d_x), LAMBDA lambda :
  PBind(calculate_x3_y3(ec, lambda, x1, x2, y1), LAMBDA xy :
  Ok(Coordinates(xy[1], xy[2]))))))

\* the (Coordinates, Coordinates) arm of add
add_chord(ec, x1, y1, x2, y2) ==
  PBind(ff_add(ec.p, y1, y2), LAMBDA y_sum :
  IF x1 = x2 /\ y_sum = 0
  THEN Ok(Identity)
  ELSE PBind(ff_sub(ec.p, y2, y1), LAMBDA d_y :
       PBind(ff_sub(ec.p, x2, x1), LAMBDA d_x :
       PBind(ff_div(ec.p, d_y, d_x), LAMBDA lambda :
       PBind(calculate_x3_y3(ec, lambda, x1, x2, y1), LAMBDA xy :
       Ok(Coordinates(xy[1], xy[2])))))))

\* add whose Identity arms return the Identity operand instead of the other one
add_returning_identity_operand(ec, r, q) ==
  IF ~is_on_curve(ec, r) THEN PPanic("OffCurve")
  ELSE IF ~is_on_curve(ec, q) THEN PPanic("OffCurve")
  ELSE IF PointEq(r, q) THEN PPanic("SameOperand")
  ELSE CASE r.tag = "Identity" /\ q.tag = "Coordinates" -> Ok(Identity)
         [] r.tag = "Coordinates" /\ q.tag = "Identity" -> Ok(Identity)
         [] r.tag = "Coordinates" /\ q.tag = "Coordinates" ->
              add_chord(ec, r.x, r.y, q.x, q.y)
         [] OTHER -> Ok(Identity)

\* add without assert_ne!(r, q)
add_without_assert_ne(ec, r, q) ==
  IF ~is_on_curve(ec, r) THEN PPanic("OffCurve")
  ELSE IF ~is_on_curve(ec, q) THEN PPanic("OffCurve")
  ELSE CASE r.tag = "Identity" /\ q.tag = "Coordinates" -> Ok(Coordinates(q.x, q.y))
         [] r.tag = "Coordinates" /\ q.tag = "Identity" -> Ok(Coordinates(r.x, r.y))
         [] r.tag = "Coordinates" /\ q.tag = "Coordinates" ->
              add_chord(ec, r.x, r.y, q.x, q.y)
         [] OTHER -> Ok(Identity)

\* add without the on-curve assertion for its second operand
add_without_assert_q(ec, r, q) ==
  IF ~is_on_curve(ec, r) THEN PPanic("OffCurve")
  ELSE IF PointEq(r, q) THEN PPanic("SameOperand")
  ELSE CASE r.tag = "Identity" /\ q.tag = "Coordinates" -> Ok(Coordinates(q.x, q.y))
         [] r.tag = "Coordinates" /\ q.tag = "Identity" -> Ok(Coordinates(r.x, r.y))
         [] r.tag = "Coordinates" /\ q.tag = "Coordinates" ->
              add_chord(ec, r.x, r.y, q.x, q.y)
         [] OTHER -> Ok(Identity)

add(ec, r, q) ==
  IF ~is_on_curve(ec, r) THEN PPanic("OffCurve")
  ELSE IF ~is_on_curve(ec, q) THEN PPanic("OffCurve")
  ELSE IF PointEq(r, q) THEN PPanic("SameOperand")
  ELSE CASE r.tag = "Identity" /\ q.tag = "Coordinates" -> Ok(Coordinates(q.x, q.y))
         [] r.tag = "Coordinates" /\ q.tag = "Identity" -> Ok(Coordinates(r.x, r.y))
         [] r.tag = "Coordinates" /\ q.tag = "Coordinates" ->
              add_chord(ec, r.x, r.y, q.x, q.y)
         [] OTHER -> Ok(Identity)

\* the tangent arm of double, y # 0
double_tangent(ec, x, y) ==
  PBind(ff_mul(ec.p, x, x), LAMBDA x_sq :
  PBind(ff_mul(ec.p, x_sq, 3), LAMBDA x_sq3 :
  PBind(ff_add(ec.p, x_sq3, ec.a), LAMBDA numerator :
  PBind(ff_mul(ec.p, 2, y), LAMBDA denominator :
  PBind(ff_div(ec.p, numerator, denominator), LAMBDA lambda :
  PBind(calculate_x3_y3(ec, lambda, x, x, y), LAMBDA xy :
  Ok(Coordinates(xy[1], xy[2]))))))))

\* double without the y = 0 test
double_without_zero_y(ec, c) ==
  IF ~is_on_curve(ec, c) THEN PPanic("OffCurve")
  ELSE IF c.tag = "Identity" THEN Ok(Identity)
  ELSE double_tangent(ec, c.x, c.y)

double(ec, c) ==
  IF ~is_on_curve(ec, c) THEN PPanic("OffCurve")
  ELSE IF c.tag = "Identity" THEN Ok(Identity)
  ELSE IF c.y = 0 THEN Ok(Identity)
  ELSE double_tangent(ec, c.x, c.y)

\* the loop body with the bit test shifted by one position
scalar_mul_body_shifted_bit(ec, c, d, t, i) ==
  PBind(double(ec, t), LAMBDA t2 :
  IF bit(d, i + 1) THEN add(ec, t2, c) ELSE Ok(t2))

\* one pass of the body of scalar_mul's loop, for bit index i of d
scalar_mul_body(ec, c, d, t, i) ==
  PBind(double(ec, t), LAMBDA t2 :
  IF bit(d, i) THEN add(ec, t2, c) ELSE Ok(t2))

\* the rest of scalar_mul's loop from bit index i on, then `t`
RECURSIVE scalar_mul_loop(_, _, _, _, _)
scalar_mul_loop(ec, c, d, t, i) ==
  IF i < 0 THEN Ok(t)
  ELSE PBind(scalar_mul_body(ec, c, d, t, i), LAMBDA t2 :
       scalar_mul_loop(ec, c, d, t2, i - 1))

\* a whole scalar_mul call.  For d = 0 the u64 subtraction bits(d) - 1 panics
\* when overflow checks are compiled in; otherwise the wrapped range of about
\* 2^64 doublings does not come back ("NoReturn").
scalar_mul(ec, c, d, overflow_checks) ==
  IF ~is_on_curve(ec, c) THEN PPanic("OffCurve")
  ELSE IF bits(d) >= 1 THEN scalar_mul_loop(ec, c, d, c, bits(d) - 2)
  ELSE IF overflow_checks THEN PPanic("Overflow")
  ELSE PPanic("NoReturn")

\* ---------------------------------------------------------------- Signer
\* Signer{curve, G, n} on the toy curve: G = (5, 1) generates the group of
\* order n = 19
GeneratorG == Coordinates(5, 1)
OrderN == 19

\* outcomes of sign (a pair (r, s)) and of verify (a boolean)
SigPanic(kind) == [err |-> kind, val |-> <<0, 0>>]
VerPanic(kind) == [err |-> kind, val |-> FALSE]

\* sign(h, d, k): R = scalar_mul(G, k); r = x_R;
\* s = mul(add(h, mul(r, d)), inv_mul(k)) in Field{n}
sign(ec, h, d, k, overflow_checks) ==
  LET R == scalar_mul(ec, GeneratorG, k, overflow_checks)
  IN  IF R.err # "none" THEN SigPanic(R.err)
      ELSE IF R.val = Identity THEN SigPanic("BadNonce")
      ELSE LET r == R.val.x
               rd == ff_mul(OrderN, r, d)
               sum == ff_add(OrderN, h, rd.val)
               k_inv == inv_mul(OrderN, k)
               s == ff_mul(OrderN, sum.val, k_inv.val)
           IN  IF k_inv.err # "none" THEN SigPanic(k_inv.err)
               ELSE Ok(<<r, s.val>>)

\* verify(h, Q, (r, s)): u1 = s^-1 * h, u2 = s^-1 * r in Field{n};
\* R' = add(scalar_mul(G, u1), scalar_mul(Q, u2)); false for Infinity,
\* else x' = r
verify(ec, h, Q, sig, overflow_checks) ==
  LET r == sig[1]
      s == sig[2]
      s_inv == inv_mul(OrderN, s)
      u1 == ff_mul(OrderN, s_inv.val, h).val
      u2 == ff_mul(OrderN, s_inv.val, r).val
      P1 == scalar_mul(ec, GeneratorG, u1, overflow_checks)
      P2 == scalar_mul(ec, Q, u2, overflow_checks)
      R2 == add(ec, P1.val, P2.val)
  IN  IF s_inv.err # "none" THEN VerPanic(s_inv.err)
      ELSE IF P1.err # "none" THEN VerPanic(P1.err)
      ELSE IF P2.err # "none" THEN VerPanic(P2.err)
      ELSE IF R2.err # "none" THEN VerPanic(R2.err)
      ELSE IF R2.val = Identity THEN Ok(FALSE)
      ELSE Ok(R2.val.x = r)

\* ---------------------------------------------------------------- inputs
Operands(p) == 0 .. (p - 1 + CoordSlack)
Points(ec) == {Identity} \cup {Coordinates(x, y) : x \in Operands(ec.p), y \in Operands(ec.p)}
Scalars == 0 .. MaxK
Moduli == 1 .. MaxModulus

\* ---------------------------------------------------------------- state
VARIABLES
  ec,     \* the EllipticCurve the calls are made on
  op,     \* the function being called, "none" between calls
  pc,     \* "idle", "loop" / "loop_wrapped" (inside scalar_mul's for), "done"
  r, q,   \* add's operands
  c, d,   \* double's / scalar_mul's point, scalar_mul's scalar
  t, i,   \* scalar_mul's accumulator and the next bit index (-1: range exhausted)
  ret,    \* outcome of a curve call
  fp, fa, fb, \* modulus and arguments of a FiniteField call
  fret,   \* outcome of a FiniteField call
  ecdsa   \* the Signer's inputs (h, d, k), public key, signature and verdict

vars == <<ec, op, pc, r, q, c, d, t, i, ret, fp, fa, fb, fret, ecdsa>>

NoRet == PPanic("pending")
NoFRet == FPanic("pending")
NoEcdsa == [h |-> 0, d |-> 0, k |-> 0, overflow_checks |-> TRUE,
            Q |-> PPanic("pending"), sig |-> SigPanic("pending"),
            verified |-> VerPanic("pending")]

Init ==
  /\ ec \in Curves
  /\ op = "none" /\ pc = "idle"
  /\ r = Identity /\ q = Identity /\ c = Identity /\ d = 0
  /\ t = Identity /\ i = 0 /\ ret = NoRet
  /\ fp = 1 /\ fa = 0 /\ fb = 0 /\ fret = NoFRet
  /\ ecdsa = NoEcdsa

FieldIdle == /\ fp' = 1 /\ fa' = 0 /\ fb' = 0 /\ fret' = NoFRet
CurveIdle == /\ r' = Identity /\ q' = Identity /\ c' = Identity /\ d' = 0
             /\ t' = Identity /\ i' = 0 /\ ret' = NoRet
SignerIdle == ecdsa' = NoEcdsa

\* ---------------------------------------------------------------- curve calls
CallAdd ==
  /\ pc = "idle"
  /\ \E r0 \in Points(ec), q0 \in Points(ec) :
       /\ r' = r0 /\ q' = q0
       /\ ret' = add(ec, r0, q0)
  /\ op' = "add" /\ pc' = "done"
  /\ c' = Identity /\ d' = 0 /\ t' = Identity /\ i' = 0
  /\ FieldIdle /\ SignerIdle
  /\ UNCHANGED ec

CallDouble ==
  /\ pc = "idle"
  /\ \E c0 \in Points(ec) :
       /\ c' = c0
       /\ ret' = double(ec, c0)
  /\ op' = "double" /\ pc' = "done"
  /\ r' = Identity /\ q' = Identity /\ d' = 0 /\ t' = Identity /\ i' = 0
  /\ FieldIdle /\ SignerIdle
  /\ UNCHANGED ec

\* scalar_mul up to the first evaluation of the loop range.  d.bits() - 1 is
\* u64 arithmetic: for d = 0 it panics when overflow checks are compiled in
\* and wraps to 2^64 - 1 when they are not.
ScalarMulEnter ==
  /\ pc = "idle"
  /\ \E c0 \in Points(ec), d0 \in Scalars :
       /\ c' = c0 /\ d' = d0
       /\ IF ~is_on_curve(ec, c0)
          THEN pc' = "done" /\ ret' = PPanic("OffCurve") /\ t' = Identity /\ i' = 0
          ELSE IF bits(d0) >= 1
          THEN pc' = "loop" /\ ret' = NoRet /\ t' = c0 /\ i' = bits(d0) - 2
          ELSE \/ pc' = "done" /\ ret' = PPanic("Overflow") /\ t' = c0 /\ i' = 0
               \/ pc' = "loop_wrapped" /\ ret' = NoRet /\ t' = c0 /\ i' = 0
  /\ op' = "scalar_mul"
  /\ r' = Identity /\ q' = Identity
  /\ FieldIdle /\ SignerIdle
  /\ UNCHANGED ec

\* one iteration of `for i in (0..(d.bits() - 1)).rev()`
ScalarMulIter ==
  /\ pc = "loop" /\ i >= 0
  /\ LET res == scalar_mul_body(ec, c, d, t, i)
     IN  IF res.err = "none"
         THEN t' = res.val /\ i' = i - 1 /\ pc' = "loop" /\ ret' = NoRet
         ELSE t' = t /\ i' = i /\ pc' = "done" /\ ret' = res
  /\ UNCHANGED <<ec, op, r, q, c, d, fp, fa, fb, fret, ecdsa>>

\* an iteration of the wrapped range of d = 0: about 2^64 indices remain,
\* all of them above every bit of d, so the index is not tracked
ScalarMulIterWrapped ==
  /\ pc = "loop_wrapped"
  /\ LET res == PBind(double(ec, t), LAMBDA t2 : Ok(t2))
     IN  IF res.err = "none"
         THEN t' = res.val /\ pc' = "loop_wrapped" /\ ret' = NoRet
         ELSE t' = t /\ pc' = "done" /\ ret' = res
  /\ UNCHANGED <<ec, op, r, q, c, d, i, fp, fa, fb, fret, ecdsa>>

\* the range is exhausted: scalar_mul returns t
ScalarMulReturn ==
  /\ pc = "loop" /\ i < 0
  /\ ret' = Ok(t) /\ pc' = "done"
  /\ UNCHANGED <<ec, op, r, q, c, d, t, i, fp, fa, fb, fret, ecdsa>>

\* ---------------------------------------------------------------- field calls
\* what every FiniteField call leaves behind besides its own outcome
FieldDone == /\ pc' = "done" /\ CurveIdle /\ SignerIdle /\ UNCHANGED ec

CallFieldAdd ==
  /\ pc = "idle"
  /\ \E p0 \in Moduli : \E a0 \in Operands(p0), b0 \in Operands(p0) :
       fp' = p0 /\ fa' = a0 /\ fb' = b0 /\ fret' = ff_add(p0, a0, b0)
  /\ op' = "ff_add" /\ FieldDone

CallFieldMul ==
  /\ pc = "idle"
  /\ \E p0 \in Moduli : \E a0 \in Operands(p0), b0 \in Operands(p0) :
       fp' = p0 /\ fa' = a0 /\ fb' = b0 /\ fret' = ff_mul(p0, a0, b0)
  /\ op' = "ff_mul" /\ FieldDone

CallFieldSub ==
  /\ pc = "idle"
  /\ \E p0 \in Moduli : \E a0 \in Operands(p0), b0 \in Operands(p0) :
       fp' = p0 /\ fa' = a0 /\ fb' = b0 /\ fret' = ff_sub(p0, a0, b0)
  /\ op' = "ff_sub" /\ FieldDone

CallFieldDiv ==
  /\ pc = "idle"
  /\ \E p0 \in Moduli : \E a0 \in Operands(p0), b0 \in Operands(p0) :
       fp' = p0 /\ fa' = a0 /\ fb' = b0 /\ fret' = ff_div(p0, a0, b0)
  /\ op' = "ff_div" /\ FieldDone

CallFieldInvAdd ==
  /\ pc = "idle"
  /\ \E p0 \in Moduli : \E n0 \in Operands(p0) :
       fp' = p0 /\ fa' = n0 /\ fb' = 0 /\ fret' = inv_add(p0, n0)
  /\ op' = "inv_add" /\ FieldDone

CallFieldInvMul ==
  /\ pc = "idle"
  /\ \E p0 \in Moduli : \E n0 \in Operands(p0) :
       fp' = p0 /\ fa' = n0 /\ fb' = 0 /\ fret' = inv_mul(p0, n0)
  /\ op' = "inv_mul" /\ FieldDone

\* ---------------------------------------------------------------- signer calls
SignerScalars == 0 .. (OrderN - 1)

\* key_pair: the private key d and Q = scalar_mul(G, d)
EcdsaKeyPair ==
  /\ pc = "idle" /\ ec = ToyCurve
  /\ \E d0 \in SignerScalars, checks \in BOOLEAN :
       LET Q0 == scalar_mul(ec, GeneratorG, d0, checks)
       IN  /\ ecdsa' = [NoEcdsa EXCEPT !.d = d0, !.overflow_checks = checks, !.Q = Q0]
           /\ pc' = IF Q0.err = "none" THEN "keyed" ELSE "done"
  /\ op' = "key_pair"
  /\ UNCHANGED <<ec, r, q, c, d, t, i, ret, fp, fa, fb, fret>>

\* sign(h, d, k) with the key of key_pair
EcdsaSign ==
  /\ pc = "keyed"
  /\ \E h0 \in SignerScalars, k0 \in SignerScalars :
       LET sig0 == sign(ec, h0, ecdsa.d, k0, ecdsa.overflow_checks)
       IN  /\ ecdsa' = [ecdsa EXCEPT !.h = h0, !.k = k0, !.sig = sig0]
           /\ pc' = IF sig0.err = "none" THEN "signed" ELSE "done"
  /\ op' = "sign"
  /\ UNCHANGED <<ec, r, q, c, d, t, i, ret, fp, fa, fb, fret>>

\* verify(h, Q, (r, s)) of the signature just made
EcdsaVerify ==
  /\ pc = "signed"
  /\ ecdsa' = [ecdsa EXCEPT !.verified =
                  verify(ec, ecdsa.h, ecdsa.Q.val, ecdsa.sig.val, ecdsa.overflow_checks)]
  /\ op' = "verify" /\ pc' = "done"
  /\ UNCHANGED <<ec, r, q, c, d, t, i, ret, fp, fa, fb, fret>>

\* the caller takes the outcome; the next call starts from scratch
Return ==
  /\ pc = "done"
  /\ op' = "none" /\ pc' = "idle"
  /\ CurveIdle /\ FieldIdle /\ SignerIdle
  /\ UNCHANGED ec

Next ==
  \/ CallAdd \/ CallDouble
  \/ ScalarMulEnter \/ ScalarMulIter \/ ScalarMulIterWrapped \/ ScalarMulReturn
  \/ CallFieldAdd \/ CallFieldMul \/ CallFieldSub \/ CallFieldDiv
  \/ CallFieldInvAdd \/ CallFieldInvMul
  \/ EcdsaKeyPair \/ EcdsaSign \/ EcdsaVerify
  \/ Return

Spec == Init /\ [][Next]_vars

TypeOK ==
  /\ ec \in Curves
  /\ pc \in {"idle", "loop", "loop_wrapped", "keyed", "signed", "done"}
  /\ d \in Scalars /\ i \in -1 .. MaxK

\* ---------------------------------------------------------------- reference notions
\* the curve equation y^2 = x^3 + a*x + b (mod p), in plain integer arithmetic
SatisfiesEquation(cv, P) ==
  P.tag = "Coordinates" => (P.y * P.y) % cv.p = (P.x * P.x * P.x + cv.a * P.x + cv.b) % cv.p

\* a point of the data model: Identity, or coordinates in [0, p)
InRange(cv, P) == P.tag = "Coordinates" => (P.x < cv.p /\ P.y < cv.p)

\* the affine points of the curve, coordinates in [0, p)
AffinePoints(cv) ==
  {P \in Points(cv) : P.tag = "Coordinates" /\ InRange(cv, P) /\ SatisfiesEquation(cv, P)}

\* the group sum of k copies of P by repeated addition, k >= 1
RECURSIVE RefMul(_, _, _)
RefMul(cv, P, k) ==
  IF k = 1 THEN Ok(P)
  ELSE PBind(RefMul(cv, P, k - 1), LAMBDA S :
       IF S = P THEN double(cv, P) ELSE add(cv, S, P))

\* the order of P: the least n >= 1 with n copies of P summing to Identity
\* (0 if there is none up to the Hasse bound)
OrderBound(cv) == 2 * cv.p + 1
\* counting up from S = n copies of P
RECURSIVE OrderFrom(_, _, _, _)
OrderFrom(cv, P, S, n) ==
  IF S = Identity THEN n
  ELSE IF n >= OrderBound(cv) THEN 0
  ELSE LET nxt == IF S = P THEN double(cv, P) ELSE add(cv, S, P)
       IN  IF nxt.err # "none" THEN 0 ELSE OrderFrom(cv, P, nxt.val, n + 1)
OrderOf(cv, P) == OrderFrom(cv, P, P, 1)
OrderTable == [cv \in Curves |-> [P \in AffinePoints(cv) |-> OrderOf(cv, P)]]

IsPrime(n) == n >= 2 /\ \A m \in 2 .. (n - 1) : n % m # 0

\* a finished scalar_mul call on an affine point of the curve
ScalarMulDone ==
  /\ op = "scalar_mul" /\ pc = "done"
  /\ c \in AffinePoints(ec)

\* ---------------------------------------------------------------- C1
\* C1: for an on-curve affine point P of prime order n and 1 <= k <= n,
\* scalar_mul(P, k) returns the sum of k copies of P as computed by repeated
\* addition; scalar_mul(P, n) is Identity; on the toy curve 2*(5,1) = (6,3)
\* and 10*(5,1) = (7,11).
C1_ScalarMulIsRepeatedAddition ==
  (ScalarMulDone /\ IsPrime(OrderTable[ec][c]) /\ 1 <= d /\ d <= OrderTable[ec][c]) =>
    /\ ret.err = "none"
    /\ ret = RefMul(ec, c, d)
    /\ (d = OrderTable[ec][c] => ret.val = Identity)
    /\ (ec = ToyCurve /\ c = Coordinates(5, 1) /\ d = 2 => ret.val = Coordinates(6, 3))
    /\ (ec = ToyCurve /\ c = Coordinates(5, 1) /\ d = 10 => ret.val = Coordinates(7, 11))

C1_Witness ==
  /\ ScalarMulDone /\ ec = ToyCurve /\ c = Coordinates(5, 1)
  /\ OrderTable[ec][c] = 19 /\ d = 19 /\ ret = Ok(Identity)

\* ---------------------------------------------------------------- C2
\* C2: for every on-curve point P and every k >= 0, also k above the order
\* of P, scalar_mul(P, k) ends without a fatal assertion and what it returns
\* is on the curve.
\* the panics raised by assert! / assert_ne! (the arithmetic overflow of
\* bits(d) - 1 for d = 0 is not one of them; it is the subject of C3)
AssertionKinds == {"OffCurve", "SameOperand", "RangeViolation"}
C2_ScalarMulTotal ==
  (op = "scalar_mul" /\ pc = "done" /\ InRange(ec, c) /\ SatisfiesEquation(ec, c)) =>
    /\ ret.err \notin AssertionKinds
    /\ (ret.err = "none" => is_on_curve(ec, ret.val))

\* ---------------------------------------------------------------- C3
\* C3: scalar_mul(P, 0) returns Identity for every on-curve P; the loop bound
\* bits(k) - 1 does not underflow.
C3_ScalarMulZero ==
  (op = "scalar_mul" /\ d = 0 /\ InRange(ec, c) /\ SatisfiesEquation(ec, c)) =>
    /\ pc # "loop_wrapped"
    /\ (pc = "done" => ret = Ok(Identity))

\* ---------------------------------------------------------------- C4
\* a finished add call
AddDone == op = "add" /\ pc = "done"

\* C4 (as stated): add(P, Identity) and add(Identity, P) return P for every
\* on-curve P, P = Identity included, so add(Identity, Identity) returns
\* Identity.
C4_IdentityNeutralForAll ==
  (AddDone /\ SatisfiesEquation(ec, r) /\ SatisfiesEquation(ec, q)) =>
    /\ (q = Identity => ret = Ok(r))
    /\ (r = Identity => ret = Ok(q))

\* C4 (amended): add(P, Identity) and add(Identity, P) return P for every
\* on-curve affine P; add(Identity, Identity) returns nothing, it fails the
\* assertion that the operands differ.
C4_IdentityNeutralForAffine ==
  (AddDone /\ SatisfiesEquation(ec, r) /\ SatisfiesEquation(ec, q)) =>
    /\ (q = Identity /\ r.tag = "Coordinates" => ret = Ok(r))
    /\ (r = Identity /\ q.tag = "Coordinates" => ret = Ok(q))
    /\ (r = Identity /\ q = Identity => ret = PPanic("SameOperand"))

C4_Witness ==
  /\ AddDone /\ ec = ToyCurve
  /\ r = Identity /\ q = Coordinates(6, 3) /\ ret = Ok(Coordinates(6, 3))

\* ---------------------------------------------------------------- C5
\* C5: add with two numerically equal on-curve operands (equal affine points
\* or both Identity) ends in the SameOperand assertion failure and returns
\* no point.
C5_SameOperandIsFatal ==
  (AddDone /\ SatisfiesEquation(ec, r) /\ SatisfiesEquation(ec, q) /\ r = q) =>
    ret = PPanic("SameOperand")

C5_Witness ==
  /\ AddDone /\ ec = ToyCurve
  /\ r = Coordinates(5, 1) /\ q = Coordinates(5, 1) /\ ret.err = "SameOperand"

\* ---------------------------------------------------------------- C6
\* operands of the data model that are on the curve and differ
DistinctOnCurve ==
  /\ InRange(ec, r) /\ InRange(ec, q)
  /\ SatisfiesEquation(ec, r) /\ SatisfiesEquation(ec, q)
  /\ r # q

\* C6: for on-curve P # Q with coordinates in [0, p), add(P, Q) = add(Q, P)
\* and the sum is on the curve; add((6,3),(5,1)) = (10,6) on the toy curve.
C6_AddCommutesAndCloses ==
  (AddDone /\ DistinctOnCurve) =>
    /\ ret.err = "none"
    /\ ret = add(ec, q, r)
    /\ InRange(ec, ret.val) /\ SatisfiesEquation(ec, ret.val)
    /\ (ec = ToyCurve /\ r = Coordinates(6, 3) /\ q = Coordinates(5, 1)
          => ret.val = Coordinates(10, 6))

C6_Witness ==
  /\ AddDone /\ DistinctOnCurve /\ ec = ToyCurve
  /\ r = Coordinates(6, 3) /\ q = Coordinates(5, 1) /\ ret = Ok(Coordinates(10, 6))

\* ---------------------------------------------------------------- C7
\* C7: for distinct on-curve affine P = (x1, y1), Q = (x2, y2) with coordinates
\* in [0, p), add(P, Q) is Identity exactly when x1 = x2 and (y1 + y2) mod p = 0,
\* and an affine point otherwise.
C7_IdentityIffReflection ==
  (AddDone /\ DistinctOnCurve /\ r.tag = "Coordinates" /\ q.tag = "Coordinates") =>
    /\ ret.err = "none"
    /\ IF r.x = q.x /\ (r.y + q.y) % ec.p = 0
       THEN ret.val = Identity
       ELSE ret.val.tag = "Coordinates"

C7_Witness ==
  /\ AddDone /\ DistinctOnCurve /\ ec = ToyCurve
  /\ r = Coordinates(6, 3) /\ q = Coordinates(6, 14) /\ ret = Ok(Identity)

\* ---------------------------------------------------------------- C8
\* the inverse of n mod p, by search
InverseMod(n, p) == CHOOSE v \in 0 .. (p - 1) : (v * n) % p = 1

\* the tangent formula in plain integer arithmetic, y # 0
TangentDouble(cv, x, y) ==
  LET lam == ((3 * x * x + cv.a) * InverseMod(2 * y, cv.p)) % cv.p
      x3 == (lam * lam - 2 * x) % cv.p
      y3 == (lam * (x - x3) - y) % cv.p
  IN  Coordinates(x3, y3)

\* C8: for on-curve P with coordinates in [0, p): double(Identity) = Identity,
\* double((x, 0)) = Identity, and for y # 0 double((x, y)) is the point given
\* by lambda = (3x^2 + a)/(2y), x3 = lambda^2 - 2x, y3 = lambda(x - x3) - y,
\* which is on the curve; double((5,1)) = (6,3) on the toy curve.
C8_DoubleFormula ==
  (op = "double" /\ pc = "done" /\ InRange(ec, c) /\ SatisfiesEquation(ec, c)) =>
    /\ (c = Identity => ret = Ok(Identity))
    /\ (c.tag = "Coordinates" /\ c.y = 0 => ret = Ok(Identity))
    /\ (c.tag = "Coordinates" /\ c.y # 0 =>
          /\ ret = Ok(TangentDouble(ec, c.x, c.y))
          /\ ret.val.tag = "Coordinates" /\ SatisfiesEquation(ec, ret.val))
    /\ (ec = ToyCurve /\ c = Coordinates(5, 1) => ret.val = Coordinates(6, 3))

C8_Witness ==
  /\ op = "double" /\ pc = "done" /\ ec = Curve7
  /\ c = Coordinates(0, 1) /\ SatisfiesEquation(ec, c)
  /\ ret.err = "none" /\ ret.val.tag = "Coordinates"

\* ---------------------------------------------------------------- C9
\* C9: add, double and scalar_mul end in a fatal assertion, with no point
\* computed or returned, whenever an affine operand is off the curve; for add
\* in either operand position, also when the other operand is Identity.
C9_OffCurveIsFatal ==
  /\ (AddDone /\ (~SatisfiesEquation(ec, r) \/ ~SatisfiesEquation(ec, q)))
        => ret = PPanic("OffCurve")
  /\ (op = "double" /\ pc = "done" /\ ~SatisfiesEquation(ec, c))
        => ret = PPanic("OffCurve")
  /\ (op = "scalar_mul" /\ ~SatisfiesEquation(ec, c))
        => pc = "done" /\ ret = PPanic("OffCurve") /\ t = Identity

C9_Witness ==
  /\ AddDone /\ ec = ToyCurve
  /\ r = Identity /\ q = Coordinates(12, 3) /\ ret.err = "OffCurve"

\* ---------------------------------------------------------------- C10
FieldOps == {"ff_add", "ff_mul", "ff_sub", "ff_div", "inv_add", "inv_mul"}

\* C10: for 0 <= a, b < p (divisor # 0 for div and inv_mul) the result of
\* add, sub, mul, div, inv_add and inv_mul lies in [0, p), and
\* inv_add(n) = (p - n) mod p.
C10_FieldResultsReduced ==
  (/\ op \in FieldOps /\ pc = "done"
   /\ fa < fp /\ fb < fp
   /\ (op = "ff_div" => fb # 0)
   /\ (op = "inv_mul" => fa # 0)) =>
    /\ fret.err = "none"
    /\ 0 <= fret.val /\ fret.val < fp
    /\ (op = "inv_add" => fret.val = (fp - fa) % fp)

\* ---------------------------------------------------------------- C11
\* C11: for a prime modulus p and 0 < a < p, mul(a, inv_mul(a)) = 1, with
\* inv_mul(a) = a^(p-2) mod p; hence for a in [0, p) and b in (0, p),
\* mul(div(a, b), b) = a.
C11_InverseAndDivision ==
  /\ (op = "inv_mul" /\ pc = "done" /\ IsPrime(fp) /\ 0 < fa /\ fa < fp) =>
        /\ fret.err = "none"
        /\ fret.val \in 0 .. (fp - 1)
        /\ ff_mul(fp, fa, fret.val) = Ok(1)
        /\ (fa * fret.val) % fp = 1
  /\ (op = "ff_div" /\ pc = "done" /\ IsPrime(fp) /\ fa < fp /\ 0 < fb /\ fb < fp) =>
        /\ fret.err = "none"
        /\ ff_mul(fp, fret.val, fb) = Ok(fa)

C11_Witness ==
  /\ op = "inv_mul" /\ pc = "done" /\ IsPrime(fp)
  /\ fp = 17 /\ fa = 6 /\ fret = Ok(3)

\* ---------------------------------------------------------------- C12
\* C12: inv_mul(0), and with it div(a, 0) for any a, fails with a
\* NonInvertible error under every modulus instead of returning a value
\* (checked for the moduli p > 2 of the data model).
C12_ZeroDivisorIsRejected ==
  /\ (op = "inv_mul" /\ pc = "done" /\ fp > 2 /\ fa = 0) => fret.err = "NonInvertible"
  /\ (op = "ff_div" /\ pc = "done" /\ fp > 2 /\ fa < fp /\ fb = 0) => fret.err = "NonInvertible"

\* ---------------------------------------------------------------- C13
\* the inputs the round trip is claimed for: h in [0, n), 1 <= d, k < n
ValidSignerInputs ==
  /\ ecdsa.h < OrderN
  /\ 1 <= ecdsa.d /\ ecdsa.d < OrderN
  /\ 1 <= ecdsa.k /\ ecdsa.k < OrderN

\* C13: on the toy curve with G = (5,1), n = 19, for h in [0, n) and
\* 1 <= d, k < n, verify(h, scalar_mul(G, d), sign(h, d, k)) returns true and
\* the verify path reaches no fatal assertion of add or scalar_mul.
C13_RoundTrip ==
  (op = "verify" /\ pc = "done" /\ ValidSignerInputs) => ecdsa.verified = Ok(TRUE)

\* ---------------------------------------------------------------- C14
\* the bit length of k >= 1: the m with 2^(m-1) <= k < 2^m
BitLength(k) == CHOOSE m \in 1 .. k : 2 ^ (m - 1) <= k /\ k < 2 ^ m

\* scalar_mul(P, k) for P of prime order n and 1 <= k < n
LadderCase ==
  /\ op = "scalar_mul" /\ 1 <= d
  /\ c.tag = "Coordinates" /\ InRange(ec, c) /\ SatisfiesEquation(ec, c)
  /\ d < OrderTable[ec][c] /\ IsPrime(OrderTable[ec][c])

\* what holds of every state of such a call
LadderInv ==
  LadderCase =>
    /\ pc \in {"loop", "done"}
    /\ -1 <= i /\ i <= BitLength(d) - 2
    /\ (i = BitLength(d) - 2 => t = c)
    /\ Ok(t) = RefMul(ec, c, d \div (2 ^ (i + 1)))
    /\ (pc = "loop" /\ i >= 0 /\ (d \div (2 ^ i)) % 2 = 1 => double(ec, t) # Ok(c))
    /\ (pc = "done" => i = -1 /\ ret = Ok(t))

\* how such a call starts and moves: from T = P at index bit_length(k) - 2,
\* one index down per iteration, returning T after index 0
LadderStep ==
  /\ (pc = "idle" /\ op' = "scalar_mul" /\ pc' = "loop" => t' = c' /\ i' = BitLength(d') - 2)
  /\ (LadderCase /\ pc = "loop" /\ i >= 0 => pc' = "loop" /\ i' = i - 1 /\ ret'.err # "SameOperand")
  /\ (LadderCase /\ pc = "loop" /\ i < 0 => pc' = "done" /\ ret' = Ok(t))

\* C14: in scalar_mul(P, k), P of prime order n and 1 <= k < n, the loop
\* starts with T = P, runs bit_length(k) - 1 iterations over the bit indices
\* bit_length(k) - 2 down to 0 (none for k = 1, which returns P), T is
\* floor(k / 2^i) copies of P after the iteration for bit i, and add is never
\* called with T = P.
C14_LadderInvariant == [](LadderInv) /\ [][LadderStep]_vars

C14_Witness ==
  /\ LadderCase /\ ec = ToyCurve /\ c = GeneratorG /\ d = 10
  /\ pc = "loop" /\ i = 0 /\ Ok(t) = RefMul(ec, c, 5)
====
